---- MODULE Spec2Model ----
(***************************************************************************)
(* Model of scripts/fetch_data.py: the season validator, the argument      *)
(* parser, the per-player shot fetch loop with its rate-limit sleep, the   *)
(* filter/aggregate step and the Parquet writer.                           *)
(*                                                                         *)
(* Strings that the code inspects character by character (the season) are *)
(* sequences of one-character strings.  A DataFrame is the sequence of its *)
(* rows; a row is a function from column names to values, so a missing     *)
(* column is a missing element of the row's DOMAIN.                        *)
(***************************************************************************)
EXTENDS Integers, Sequences, FiniteSets, TLC

VARIABLES
    hasFlag,            \* is --season present in sys.argv
    seasonArg,          \* the string given after --season
    pc,                 \* position of the process in main()
    season,             \* args.season
    output_path,        \* main(): output_path
    player_list,        \* fetch_three_point_data(): player_list
    cursor,             \* number of loop iterations completed
    shots_df,           \* fetch_three_point_data(): shots_df
    all_three_pointers, \* fetch_three_point_data(): all_three_pointers
    three_point_df,     \* main(): three_point_df
    files,              \* the files written, as <<path, table>> pairs
    exitStatus,         \* exit status of the process, meaningful at pc = "exit"
    error,              \* the exception that ended the run, "none" otherwise
    events,             \* external effects and reports, in order
    responses,          \* what the shot-chart API did, one entry per fetch
    rosterQueries       \* the seasons the roster API was queried with

vars == <<hasFlag, seasonArg, pc, season, output_path, player_list, cursor,
          shots_df, all_three_pointers, three_point_df, files, exitStatus,
          error, events, responses, rosterQueries>>

(***************************************************************************)
(* Bounds                                                                  *)
(***************************************************************************)
FirstYear == 1995
LastYear == 2100
MaxPlayers == 2
MaxRows == 2

(***************************************************************************)
(* Characters                                                              *)
(***************************************************************************)
AsciiDigits == <<"0", "1", "2", "3", "4", "5", "6", "7", "8", "9">>

\* Python's \d and int() on str also take the other Unicode decimal digits.
ArabicIndicDigits == <<"U+0660", "U+0661", "U+0662", "U+0663", "U+0664",
                       "U+0665", "U+0666", "U+0667", "U+0668", "U+0669">>

DigitValue ==
    [c \in {AsciiDigits[k] : k \in 1..10} \cup {ArabicIndicDigits[k] : k \in 1..10} |->
        IF \E k \in 1..10 : AsciiDigits[k] = c
        THEN (CHOOSE k \in 1..10 : AsciiDigits[k] = c) - 1
        ELSE (CHOOSE k \in 1..10 : ArabicIndicDigits[k] = c) - 1]

IsDigit(c) == c \in DOMAIN DigitValue

Whitespace == {" ", "\t", "\n", "\r"}

(***************************************************************************)
(* validate_season_format                                                  *)
(***************************************************************************)

\* '$' without re.MULTILINE: the end of the string, or just before a
\* newline that is the last character of the string.
MatchDollar(s, pos) ==
    \/ pos = Len(s) + 1
    \/ pos = Len(s) /\ s[pos] = "\n"

\* re.match(r'^\d{4}-\d{2}$', season)
re_match(s) ==
    /\ Len(s) >= 7
    /\ \A k \in 1..4 : IsDigit(s[k])
    /\ s[5] = "-"
    /\ \A k \in 6..7 : IsDigit(s[k])
    /\ MatchDollar(s, 8)

\* str.split(sep) for a one-character separator
RECURSIVE SplitFrom(_, _, _, _)
SplitFrom(s, sep, k, cur) ==
    IF k > Len(s) THEN <<cur>>
    ELSE IF s[k] = sep THEN <<cur>> \o SplitFrom(s, sep, k + 1, <<>>)
    ELSE SplitFrom(s, sep, k + 1, Append(cur, s[k]))

split(s, sep) == SplitFrom(s, sep, 1, <<>>)

\* str.strip() as int() applies it
RECURSIVE StripLeft(_)
StripLeft(s) ==
    IF s # <<>> /\ s[1] \in Whitespace THEN StripLeft(Tail(s)) ELSE s

RECURSIVE StripRight(_)
StripRight(s) ==
    IF s # <<>> /\ s[Len(s)] \in Whitespace
    THEN StripRight(SubSeq(s, 1, Len(s) - 1)) ELSE s

RECURSIVE DigitsValue(_)
DigitsValue(s) ==
    IF s = <<>> THEN 0
    ELSE 10 * DigitsValue(SubSeq(s, 1, Len(s) - 1)) + DigitValue[s[Len(s)]]

\* int(text): the value, or -1 where int() raises ValueError
int(text) ==
    LET t == StripRight(StripLeft(text))
    IN  IF t # <<>> /\ \A k \in 1..Len(t) : IsDigit(t[k])
        THEN DigitsValue(t) ELSE -1

expected_end_wrapped(start_year) == (start_year + 1) % 100

\* expected_end = start_year % 100 + 1 (% binds tighter than + in Python)
expected_end(start_year) == (start_year % 100) + 1

\* The call's outcome: raised = TRUE for argparse.ArgumentTypeError (or the
\* ValueError of int()), else value is the returned string.
validate_season_format(s) ==
    IF ~re_match(s) THEN [raised |-> TRUE, value |-> <<>>]
    ELSE LET years == split(s, "-")
             start_year == int(years[1])
             end_year_short == int(years[2])
         IN  IF start_year < 0 \/ end_year_short < 0
             THEN [raised |-> TRUE, value |-> <<>>]
             ELSE IF end_year_short # expected_end(start_year)
             THEN [raised |-> TRUE, value |-> <<>>]
             ELSE [raised |-> FALSE, value |-> s]

(***************************************************************************)
(* DataFrames                                                              *)
(***************************************************************************)
ThreePointMarker == "3PT Field Goal"

ShotTypes == {ThreePointMarker, "2PT Field Goal", "3pt field goal", "3PT"}

PlayerIds == 1..MaxPlayers

DisplayName(player_id) == <<"player", player_id>>

\* DataFrame.empty
Empty(df) == df = <<>>

\* pd.DataFrame()
EmptyFrame == <<>>

HasColumn(df, col) == \A k \in 1..Len(df) : col \in DOMAIN df[k]

\* What the shot-chart endpoint can hand back for one player: frames of up
\* to limit rows, numbered in the order the API returns them.
WellFormedFrames(player_id, limit) ==
    UNION {{[k \in 1..n |-> [SHOT_TYPE |-> ts[k], SHOT_EVENT |-> k, PLAYER_ID |-> player_id]] :
              ts \in [1..n -> ShotTypes]} : n \in 0..limit}

\* A non-empty frame without the SHOT_TYPE column.
MalformedFrames(player_id, limit) ==
    {[k \in 1..n |-> [SHOT_EVENT |-> k, PLAYER_ID |-> player_id]] : n \in 1..limit}

ShotResponses(player_id, limit) ==
    {[kind |-> "raise", rows |-> <<>>]}
    \cup {[kind |-> "frame", rows |-> f] :
            f \in WellFormedFrames(player_id, limit) \cup MalformedFrames(player_id, limit)}

\* the rows the shot-chart endpoint has returned so far in this run
RECURSIVE RowsReturned(_)
RowsReturned(rs) ==
    IF rs = <<>> THEN 0 ELSE Len(Head(rs).rows) + RowsReturned(Tail(rs))

\* What the roster endpoint can hand back: rows of distinct PERSON_ID, in
\* any order, each rostered or not.
RosterFrames ==
    UNION {{[k \in 1..n |-> [PERSON_ID |-> ids[k],
                             DISPLAY_FIRST_LAST |-> DisplayName(ids[k]),
                             ROSTERSTATUS |-> st[k]]] :
              ids \in {f \in [1..n -> PlayerIds] : \A a, b \in 1..n : a # b => f[a] # f[b]},
              st \in [1..n -> {0, 1}]} : n \in 0..MaxPlayers}

\* players_data[players_data['ROSTERSTATUS'] == 1], then the list of dicts
ActivePlayers(players_data) ==
    LET active == SelectSeq(players_data, LAMBDA row : row.ROSTERSTATUS = 1)
    IN  [k \in 1..Len(active) |->
            [player_id |-> active[k].PERSON_ID,
             player_name |-> active[k].DISPLAY_FIRST_LAST]]

\* shots_df['PLAYER_NAME'] = player_name
TagPlayerName(df, player_name) ==
    [k \in 1..Len(df) |-> ("PLAYER_NAME" :> player_name) @@ df[k]]

Is3PT_contains(shot_type) == shot_type \in {ThreePointMarker, "3PT"}

\* shots_df['SHOT_TYPE'] == '3PT Field Goal'
Is3PT(shot_type) == shot_type = ThreePointMarker

\* shots_df[mask].copy()
FilterThreePointers(df) == SelectSeq(df, LAMBDA row : Is3PT(row.SHOT_TYPE))

PrependFrame(frames, df) == <<df>> \o frames

\* all_three_pointers.append(three_pointers)
AppendFrame(frames, df) == Append(frames, df)

\* pd.concat(frames, ignore_index=True)
RECURSIVE concat(_)
concat(frames) ==
    IF frames = <<>> THEN <<>> ELSE Head(frames) \o concat(Tail(frames))

SleepDue_whenData(df) == ~Empty(df)

\* time.sleep(rate_limit_seconds) stands outside the "if not shots_df.empty"
SleepDue(df) == TRUE

ShouldSave_always(df) == TRUE

\* main(): if not three_point_df.empty
ShouldSave(df) == ~Empty(df)

\* season.replace('-', '_') inside the file name template
OutputPath(s) ==
    <<"data/raw/nba_3pt_">>
    \o [k \in 1..Len(s) |-> IF s[k] = "-" THEN "_" ELSE s[k]]
    \o <<".parquet">>

(***************************************************************************)
(* Process arguments                                                       *)
(***************************************************************************)
SeasonString(y, e) ==
    <<AsciiDigits[((y \div 1000) % 10) + 1], AsciiDigits[((y \div 100) % 10) + 1],
      AsciiDigits[((y \div 10) % 10) + 1], AsciiDigits[(y % 10) + 1], "-",
      AsciiDigits[((e \div 10) % 10) + 1], AsciiDigits[(e % 10) + 1]>>

\* parser.add_argument('--season', default='2024-25')
DefaultSeason == SeasonString(2024, 25)

CanonicalSeasons == {SeasonString(y, e) : y \in FirstYear..LastYear, e \in 0..99}

BaseSeasons ==
    {SeasonString(y, (y % 100) + 1) : y \in {1998, 1999, 2023, 2024, 2099}}
    \cup {SeasonString(2024, 26), SeasonString(2024, 24),
          SeasonString(1999, 0), SeasonString(2099, 0)}

ReplaceAt(s, k, c) == [j \in 1..Len(s) |-> IF j = k THEN c ELSE s[j]]

Variants(s) ==
    {s \o <<"\n">>, s \o <<"\n", "\n">>, s \o <<" ">>, s \o <<"x">>, s \o <<"0">>,
     <<" ">> \o s, <<"\n">> \o s, <<"0">> \o s,
     SubSeq(s, 1, 6), SubSeq(s, 2, 7),
     ReplaceAt(s, 5, "_"), ReplaceAt(s, 5, "/"), ReplaceAt(s, 5, "0"),
     ReplaceAt(s, 1, "a"), ReplaceAt(s, 7, "f"), ReplaceAt(s, 6, "-"),
     ReplaceAt(s, 1, ArabicIndicDigits[DigitValue[s[1]] + 1]),
     ReplaceAt(s, 7, ArabicIndicDigits[DigitValue[s[7]] + 1]),
     SubSeq(s, 1, 5) \o <<"\n">> \o SubSeq(s, 6, 7)}

OtherStrings ==
    {<<>>, <<"a", "b", "c", "d", "-", "e", "f">>, <<"-">>, <<"2", "0", "2", "4">>,
     <<"2", "0", "2", "4", "-", "2", "0", "2", "5">>}

ValidatorInputs ==
    CanonicalSeasons \cup UNION {Variants(s) : s \in BaseSeasons} \cup OtherStrings

CliInputs ==
    {SeasonString(2023, 24), SeasonString(2024, 26), SeasonString(2024, 24),
     SeasonString(2099, 0), SeasonString(2024, 25) \o <<"\n">>,
     <<"a", "b", "c", "d", "-", "e", "f">>, <<>>}

(***************************************************************************)
(* Initial states                                                          *)
(***************************************************************************)
InitRest ==
    /\ pc = "start"
    /\ season = <<>>
    /\ output_path = <<>>
    /\ player_list = <<>>
    /\ cursor = 0
    /\ shots_df = EmptyFrame
    /\ all_three_pointers = <<>>
    /\ three_point_df = EmptyFrame
    /\ files = <<>>
    /\ exitStatus = 0
    /\ error = "none"
    /\ events = <<>>
    /\ responses = <<>>
    /\ rosterQueries = <<>>

Init ==
    /\ \/ hasFlag = TRUE /\ seasonArg \in CliInputs
       \/ hasFlag = FALSE /\ seasonArg = <<>>
    /\ InitRest

InitValidator ==
    /\ \/ hasFlag = TRUE /\ seasonArg \in ValidatorInputs
       \/ hasFlag = FALSE /\ seasonArg = <<>>
    /\ InitRest

(***************************************************************************)
(* Steps of main()                                                         *)
(***************************************************************************)

\* args = parse_arguments(): argparse passes the --season string, or the
\* string default, through type=validate_season_format; on its error
\* parser.error() reports usage and exits with status 2.  On success main()
\* prints the banner and derives output_path.
ParseArguments ==
    /\ pc = "start"
    /\ LET raw == IF hasFlag THEN seasonArg ELSE DefaultSeason
           res == validate_season_format(raw)
       IN  IF res.raised
           THEN /\ pc' = "exit"
                /\ exitStatus' = 2
                /\ error' = "ArgumentTypeError"
                /\ events' = Append(events, "usage_error")
                /\ UNCHANGED <<season, output_path>>
           ELSE /\ pc' = "get_player_list"
                /\ season' = res.value
                /\ output_path' = OutputPath(res.value)
                /\ events' = Append(events, "banner")
                /\ UNCHANGED <<exitStatus, error>>
    /\ UNCHANGED <<hasFlag, seasonArg, player_list, cursor, shots_df,
                   all_three_pointers, three_point_df, files, responses,
                   rosterQueries>>

\* player_list = get_player_list(season): the roster query either raises,
\* which nothing catches, or yields the rows that are filtered to the
\* rostered players.
GetPlayerList ==
    /\ pc = "get_player_list"
    /\ rosterQueries' = Append(rosterQueries, season)
    /\ \/ /\ pc' = "exit"
          /\ exitStatus' = 1
          /\ error' = "enumeration"
          /\ events' = Append(events, "roster_query")
          /\ UNCHANGED player_list
       \/ \E players_data \in RosterFrames :
            /\ player_list' = ActivePlayers(players_data)
            /\ pc' = "loop"
            /\ events' = Append(events, "roster_query")
            /\ UNCHANGED <<exitStatus, error>>
    /\ UNCHANGED <<hasFlag, seasonArg, season, output_path, cursor, shots_df,
                   all_three_pointers, three_point_df, files, responses>>

\* shots_df = get_player_shots(player_id, player_name, season) for the next
\* player of the list: the query raises and the except clause returns an
\* empty frame, or it returns a frame that is tagged when it is not empty.
GetPlayerShots ==
    /\ pc = "loop"
    /\ cursor < Len(player_list)
    /\ LET player == player_list[cursor + 1]
       IN  \E resp \in ShotResponses(player.player_id, MaxRows - RowsReturned(responses)) :
            /\ responses' = Append(responses,
                    [player_id |-> player.player_id, kind |-> resp.kind, rows |-> resp.rows])
            /\ IF resp.kind = "raise"
               THEN /\ shots_df' = EmptyFrame
                    /\ events' = events \o <<"shot_query", "warning">>
               ELSE /\ shots_df' = IF ~Empty(resp.rows)
                                   THEN TagPlayerName(resp.rows, player.player_name)
                                   ELSE resp.rows
                    /\ events' = Append(events, "shot_query")
    /\ pc' = "filter"
    /\ UNCHANGED <<hasFlag, seasonArg, season, output_path, player_list, cursor,
                   all_three_pointers, three_point_df, files, exitStatus,
                   error, rosterQueries>>

\* The filter of the loop body: shots_df['SHOT_TYPE'] raises KeyError when
\* the column is missing, and no handler encloses it.
FilterStep ==
    /\ pc = "filter"
    /\ IF Empty(shots_df)
       THEN /\ pc' = "sleep"
            /\ UNCHANGED <<all_three_pointers, exitStatus, error, events>>
       ELSE IF ~HasColumn(shots_df, "SHOT_TYPE")
       THEN /\ pc' = "exit"
            /\ exitStatus' = 1
            /\ error' = "KeyError"
            /\ events' = Append(events, "traceback")
            /\ UNCHANGED all_three_pointers
       ELSE LET three_pointers == FilterThreePointers(shots_df)
            IN  /\ all_three_pointers' =
                      IF ~Empty(three_pointers)
                      THEN AppendFrame(all_three_pointers, three_pointers)
                      ELSE all_three_pointers
                /\ pc' = "sleep"
                /\ UNCHANGED <<exitStatus, error, events>>
    /\ UNCHANGED <<hasFlag, seasonArg, season, output_path, player_list, cursor,
                   shots_df, three_point_df, files, responses, rosterQueries>>

\* time.sleep(rate_limit_seconds), the last statement of the loop body
Sleep ==
    /\ pc = "sleep"
    /\ events' = IF SleepDue(shots_df) THEN Append(events, "sleep") ELSE events
    /\ cursor' = cursor + 1
    /\ pc' = "loop"
    /\ UNCHANGED <<hasFlag, seasonArg, season, output_path, player_list,
                   shots_df, all_three_pointers, three_point_df, files,
                   exitStatus, error, responses, rosterQueries>>

\* Step 3 of fetch_three_point_data and its return into three_point_df
Combine ==
    /\ pc = "loop"
    /\ cursor = Len(player_list)
    /\ IF all_three_pointers # <<>>
       THEN /\ three_point_df' = concat(all_three_pointers)
            /\ events' = Append(events, "collected")
       ELSE /\ three_point_df' = EmptyFrame
            /\ events' = Append(events, "none_found")
    /\ pc' = "save"
    /\ UNCHANGED <<hasFlag, seasonArg, season, output_path, player_list, cursor,
                   shots_df, all_three_pointers, files, exitStatus, error,
                   responses, rosterQueries>>

\* The end of main(): save_to_parquet and the summary, or "No data to save".
\* mkdir or to_parquet can raise, which nothing catches.
SaveOrReport ==
    /\ pc = "save"
    /\ pc' = "exit"
    /\ IF ShouldSave(three_point_df)
       THEN \/ /\ files' = Append(files, <<output_path, three_point_df>>)
               /\ events' = events \o <<"save_to_parquet", "saved", "summary">>
               /\ UNCHANGED <<exitStatus, error>>
            \/ /\ events' = events \o <<"save_to_parquet", "traceback">>
               /\ exitStatus' = 1
               /\ error' = "write"
               /\ UNCHANGED files
       ELSE /\ events' = Append(events, "no_data")
            /\ UNCHANGED <<files, exitStatus, error>>
    /\ UNCHANGED <<hasFlag, seasonArg, season, output_path, player_list, cursor,
                   shots_df, all_three_pointers, three_point_df, responses,
                   rosterQueries>>

Next ==
    \/ ParseArguments
    \/ GetPlayerList
    \/ GetPlayerShots
    \/ FilterStep
    \/ Sleep
    \/ Combine
    \/ SaveOrReport

Spec == Init /\ [][Next]_vars

NextValidator == ParseArguments

SpecValidator == InitValidator /\ [][NextValidator]_vars

TypeOK ==
    /\ hasFlag \in BOOLEAN
    /\ pc \in {"start", "get_player_list", "loop", "filter", "sleep", "save", "exit"}
    /\ cursor \in 0..Len(player_list)
    /\ exitStatus \in {0, 1, 2}
    /\ error \in {"none", "ArgumentTypeError", "enumeration", "KeyError", "write"}

(***************************************************************************)
(* Vocabulary of the properties                                            *)
(***************************************************************************)
Parsed == pc # "start"

Accepted == Parsed /\ error # "ArgumentTypeError"

Rejected == pc = "exit" /\ error = "ArgumentTypeError" /\ exitStatus = 2

\* exactly four digits, a hyphen and two digits
ExactShape(s) ==
    /\ Len(s) = 7
    /\ \A k \in {1, 2, 3, 4, 6, 7} : IsDigit(s[k])
    /\ s[5] = "-"

SuffixValue(s) == 10 * DigitValue[s[6]] + DigitValue[s[7]]

PrefixMod100(s) == 10 * DigitValue[s[3]] + DigitValue[s[4]]

Count(e) == Cardinality({k \in 1..Len(events) : events[k] = e})

Aggregated == \E k \in 1..Len(events) : events[k] \in {"collected", "none_found"}

Malformed(resp) == resp.kind = "frame" /\ ~HasColumn(resp.rows, "SHOT_TYPE")

FetchFailed(resp) == resp.kind = "raise" \/ Malformed(resp)

\* the rows a response contributes when a failed fetch counts as empty
Contribution(resp) ==
    IF FetchFailed(resp) THEN <<>>
    ELSE SelectSeq(TagPlayerName(resp.rows, DisplayName(resp.player_id)),
                   LAMBDA row : row.SHOT_TYPE = "3PT Field Goal")

RECURSIVE ExpectedAggregate(_)
ExpectedAggregate(rs) ==
    IF rs = <<>> THEN <<>>
    ELSE ExpectedAggregate(SubSeq(rs, 1, Len(rs) - 1)) \o Contribution(rs[Len(rs)])

SameShot(row, raw) ==
    /\ row.PLAYER_ID = raw.PLAYER_ID
    /\ row.SHOT_EVENT = raw.SHOT_EVENT

Occurrences(raw) ==
    Cardinality({m \in 1..Len(three_point_df) : SameShot(three_point_df[m], raw)})

EnumIndex(player_id) ==
    CHOOSE k \in 1..Len(player_list) : player_list[k].player_id = player_id

\* the fetches, sleeps and the start of aggregation, in the order they happened
Pacing ==
    SelectSeq(events, LAMBDA e : e \in {"shot_query", "sleep", "collected", "none_found"})

(***************************************************************************)
(* Season validator                                                        *)
(***************************************************************************)

WrapAroundAccepted ==
    (/\ Parsed /\ hasFlag /\ ExactShape(seasonArg)
     /\ PrefixMod100(seasonArg) = 99 /\ SuffixValue(seasonArg) = 0) =>
        (Accepted /\ season = seasonArg)

\* C10: every string that is not exactly four digits, a hyphen and two
\* digits is rejected, and every string the validator returns has that shape.
OnlyExactShapeAccepted ==
    (Parsed /\ hasFlag) =>
        /\ ~ExactShape(seasonArg) => Rejected
        /\ Accepted => ExactShape(season)

(***************************************************************************)
(* Pipeline                                                                *)
(***************************************************************************)

\* C3: a player's failed fetch (raised, or a non-empty frame without the
\* shot-type column) does not abort the run: every player of the list is
\* fetched and the aggregate is the one obtained with the failed fetches
\* taken as empty results.
FailureIsolation ==
    (pc = "exit" /\ \E k \in 1..Len(responses) : FetchFailed(responses[k])) =>
        /\ error \in {"none", "write"}
        /\ Len(responses) = Len(player_list)
        /\ Aggregated
        /\ three_point_df = ExpectedAggregate(responses)

RowOrder ==
    /\ \A k \in 1..Len(responses) :
          /\ k <= Len(player_list)
          /\ responses[k].player_id = player_list[k].player_id
    /\ Aggregated =>
          \A a, b \in 1..Len(three_point_df) :
              a < b =>
                LET pa == EnumIndex(three_point_df[a].PLAYER_ID)
                    pb == EnumIndex(three_point_df[b].PLAYER_ID)
                IN  \/ pa < pb
                    \/ /\ pa = pb
                       /\ three_point_df[a].SHOT_EVENT < three_point_df[b].SHOT_EVENT

RowOrderReached ==
    /\ Aggregated
    /\ Len(three_point_df) = 2
    /\ Len(player_list) = 2
    /\ player_list[1].player_id > player_list[2].player_id
    /\ three_point_df[1].PLAYER_ID = player_list[1].player_id
    /\ three_point_df[2].PLAYER_ID = player_list[2].player_id

ValidationPrecedesIO ==
    /\ (/\ Parsed /\ hasFlag
        /\ \/ ~ExactShape(seasonArg)
           \/ SuffixValue(seasonArg) # PrefixMod100(seasonArg) + 1) =>
          /\ Rejected
          /\ rosterQueries = <<>>
          /\ responses = <<>>
          /\ files = <<>>
    /\ \A k \in 1..Len(rosterQueries) :
          ~validate_season_format(rosterQueries[k]).raised

\* C8: save_to_parquet is called at most once, only after all players were
\* fetched and only with a non-empty table; a run that aggregated zero rows
\* ends with no call, no file and "no data" reported, and a run that
\* aggregated at least one row ends with exactly one call.
WriterIffNonEmpty ==
    /\ Count("save_to_parquet") <= 1
    /\ Len(files) <= Count("save_to_parquet")
    /\ Count("save_to_parquet") = 1 =>
          /\ Aggregated
          /\ ~Empty(three_point_df)
          /\ cursor = Len(player_list)
          /\ Len(responses) = Len(player_list)
    /\ (pc = "exit" /\ Aggregated) =>
          IF Empty(three_point_df)
          THEN Count("save_to_parquet") = 0 /\ files = <<>> /\ Count("no_data") = 1
          ELSE Count("save_to_parquet") = 1 /\ Count("no_data") = 0

NoDataReached ==
    /\ pc = "exit"
    /\ Aggregated
    /\ Empty(three_point_df)
    /\ Len(responses) = 2
    /\ Count("no_data") = 1

\* C9: the exit status is 0 when the file was written and on the "no data"
\* path; it is non-zero when argument parsing fails, when the roster query
\* raises (no fetch, no write) and when the write raises (no summary); a
\* run in which only per-player fetches failed exits with 0.
ExitStatusContract ==
    pc = "exit" =>
        /\ files # <<>> => exitStatus = 0
        /\ Count("no_data") > 0 => exitStatus = 0
        /\ error = "ArgumentTypeError" => exitStatus # 0
        /\ error = "enumeration" => (exitStatus # 0 /\ responses = <<>> /\ files = <<>>)
        /\ error = "write" => (exitStatus # 0 /\ Count("summary") = 0)
        /\ error \notin {"ArgumentTypeError", "enumeration", "write"} => exitStatus = 0

====
